---- MODULE Spec2Model ----
(***************************************************************************)
(* Model of otel/tracer/tracer.go: InitTracer, InitNoopTracer and the      *)
(* otelTracer handle (Tracer, TracerProvider, Shutdown), together with the *)
(* two process-wide slots of the otel package they write (the global       *)
(* tracer provider and the global text-map propagator).                    *)
(*                                                                         *)
(* Strings that the code takes apart (the exporter URL) are sequences of   *)
(* one-character strings; strings that it only compares or concatenates    *)
(* (service name, messages) are TLA+ strings.  A Go error is the chain of  *)
(* its messages, outermost first; the nil error is the empty chain.  A nil *)
(* pointer is the string "nil".                                            *)
(***************************************************************************)
EXTENDS Integers, Sequences, FiniteSets, TLC

\* ------------------------------------------------------------------ bounds
MaxInits == 2       \* initialization calls per behaviour of Spec and SpecConc
MaxShutdowns == 2   \* Shutdown calls per behaviour of Spec
MaxCalls == 1       \* InitTracer calls per behaviour of SpecCall
NumThreads == 2     \* goroutines initializing concurrently in SpecConc

\* ------------------------------------------------- net/url.Parse (line 52)
Digits == {"0", "1", "2", "3", "4", "5", "6", "7", "8", "9"}
LowerCase == {"a", "b", "c", "d", "e", "f", "g", "h", "i", "j", "k", "l", "m",
              "n", "o", "p", "q", "r", "s", "t", "u", "v", "w", "x", "y", "z"}
UpperCase == {"H", "T", "P", "S"}
ControlChars == {"\n"}

ToLower(c) ==
    CASE c = "H" -> "h"
      [] c = "T" -> "t"
      [] c = "P" -> "p"
      [] c = "S" -> "s"
      [] OTHER   -> c

LowerAll(s) == [i \in 1..Len(s) |-> ToLower(s[i])]

Letters == LowerCase \cup UpperCase
SchemeTail == Digits \cup {"+", "-", "."}
HostBytes == Letters \cup Digits \cup {".", "-", ":"}

Min(S) == CHOOSE m \in S : \A k \in S : m <= k
Max(S) == CHOOSE m \in S : \A k \in S : m >= k

\* strings.Index / strings.LastIndex of a one-byte needle, 1-based, 0 = absent
Index(s, c) ==
    LET at == {i \in 1..Len(s) : s[i] = c}
    IN  IF at = {} THEN 0 ELSE Min(at)

LastIndex(s, c) ==
    LET at == {i \in 1..Len(s) : s[i] = c}
    IN  IF at = {} THEN 0 ELSE Max(at)

HasPrefix2(s, a, b) == Len(s) >= 2 /\ s[1] = a /\ s[2] = b

\* s[from:] with a 1-based first position
From(s, from) == IF from > Len(s) THEN <<>> ELSE SubSeq(s, from, Len(s))

\* getScheme: letters run on; a digit, '+', '-' or '.' is allowed after the
\* first byte; ':' ends the scheme (an error at position 0); any other byte
\* means the URL has no scheme.
SchemeEnd(s) ==
    LET stops == {i \in 1..Len(s) :
                     s[i] \notin Letters /\ ~(i > 1 /\ s[i] \in SchemeTail)}
    IN  IF stops = {} THEN 0 ELSE Min(stops)

getScheme(s) ==
    LET i == SchemeEnd(s)
    IN  IF i = 0 \/ s[i] # ":"
        THEN [scheme |-> <<>>, rest |-> s, err |-> ""]
        ELSE IF i = 1
             THEN [scheme |-> <<>>, rest |-> <<>>, err |-> "missing protocol scheme"]
             ELSE [scheme |-> SubSeq(s, 1, i - 1), rest |-> From(s, i + 1), err |-> ""]

\* validOptionalPort: "" or ':' followed by digits only
validOptionalPort(port) ==
    \/ port = <<>>
    \/ port[1] = ":" /\ \A i \in 2..Len(port) : port[i] \in Digits

\* the bytes unescape(host, encodeHost) accepts unescaped, within the alphabet used
HostByteOK(c) == c \in HostBytes

\* parseHost for a host that is not an IPv6 literal
parseHost(host) ==
    LET i == LastIndex(host, ":")
    IN  IF i # 0 /\ ~validOptionalPort(From(host, i))
        THEN [host |-> <<>>, err |-> "invalid port after host"]
        ELSE IF \E k \in 1..Len(host) : ~HostByteOK(host[k])
             THEN [host |-> <<>>, err |-> "invalid character in host name"]
             ELSE [host |-> host, err |-> ""]

ParseFailure(msg) ==
    [Scheme |-> <<>>, Host |-> <<>>, Opaque |-> <<>>, Path |-> <<>>, err |-> msg]

\* The only member of a one-element set.  Used as The({F(x) : x \in {e}}) to
\* work out an intermediate result e once and name it x.
The(S) == CHOOSE x \in S : TRUE

\* parse, after getScheme returned g without an error
parseRest(g) ==
    LET scheme == LowerAll(g.scheme)
        rest == g.rest
        rooted == Len(rest) >= 1 /\ rest[1] = "/"
        slash == Index(rest, "/")
        segment == IF slash = 0 THEN rest ELSE SubSeq(rest, 1, slash - 1)
        afterSlashes == From(rest, 3)
        cut == Index(afterSlashes, "/")
        authority == IF cut = 0 THEN afterSlashes ELSE SubSeq(afterSlashes, 1, cut - 1)
        path == IF cut = 0 THEN <<>> ELSE From(afterSlashes, cut)
    IN  IF ~rooted /\ scheme # <<>>
        THEN [Scheme |-> scheme, Host |-> <<>>, Opaque |-> rest, Path |-> <<>>, err |-> ""]
        ELSE IF ~rooted /\ Index(segment, ":") # 0
        THEN ParseFailure("first path segment in URL cannot contain colon")
        ELSE IF HasPrefix2(rest, "/", "/")
                /\ (scheme # <<>> \/ ~(Len(rest) >= 3 /\ rest[3] = "/"))
        THEN The({IF h.err # "" THEN ParseFailure(h.err)
                  ELSE [Scheme |-> scheme, Host |-> h.host, Opaque |-> <<>>,
                        Path |-> path, err |-> ""] :
                  h \in {parseHost(a) : a \in {authority}}})
        ELSE [Scheme |-> scheme, Host |-> <<>>, Opaque |-> <<>>, Path |-> rest, err |-> ""]

\* url.Parse for URLs without '#', '?', '@', '%', '[' and '*' (the URLs of
\* ExporterURLs contain none of them, so the fragment, query, userinfo,
\* escape and IPv6 branches are not taken).
Parse(rawURL) ==
    IF \E i \in 1..Len(rawURL) : rawURL[i] \in ControlChars
    THEN ParseFailure("net/url: invalid control character in URL")
    ELSE The({IF g.err # "" THEN ParseFailure(g.err) ELSE parseRest(g) :
              g \in {getScheme(rawURL)}})

\* ------------------------------------------------------ Config (lines 33-41)
UrlEmpty == <<>>
UrlHttpLocal ==
    <<"h", "t", "t", "p", ":", "/", "/", "l", "o", "c", "a", "l", "h", "o", "s", "t",
      ":", "4", "3", "1", "7">>
UrlHttpsCollector ==
    <<"h", "t", "t", "p", "s", ":", "/", "/", "c", "o", "l", "l", "e", "c", "t", "o", "r",
      ".", "e", "x", "a", "m", "p", "l", "e", ":", "4", "3", "1", "7">>
UrlNotAUrl == <<"n", "o", "t", " ", "a", " ", "u", "r", "l">>
UrlUpperHttp == <<"H", "T", "T", "P", ":", "/", "/", "h", ":", "1">>
UrlBadPort == <<"h", "t", "t", "p", "s", ":", "/", "/", "h", ":", "x">>
UrlNoScheme == <<":", "4", "3", "1", "7">>
UrlHostPort == <<"l", "o", "c", "a", "l", "h", "o", "s", "t", ":", "4", "3", "1", "7">>
UrlSpaceInHost == <<"h", "t", "t", "p", ":", "/", "/", "a", " ", "b">>
UrlControl == <<"h", "t", "t", "p", ":", "/", "/", "h", "\n">>

ExporterURLs ==
    {UrlEmpty, UrlHttpLocal, UrlHttpsCollector, UrlNotAUrl, UrlUpperHttp, UrlBadPort,
     UrlNoScheme, UrlHostPort, UrlSpaceInHost, UrlControl}

Nil == "nil"
SchemeHttp == <<"h", "t", "t", "p">>

Configs ==
    [ExporterURL : ExporterURLs,
     SecretToken : {"s3cr3t"},
     ServiceName : {"", "orders"},
     ServiceVersion : {"1.0.0"},
     DeploymentEnvironment : {"prod"},
     Creds : {Nil, "tlsCreds"},
     Sampler : {Nil, "customSampler"}]

\* Config{ExporterURL: url}: every other field has its zero value
ZeroConfig(url) ==
    [ExporterURL |-> url, SecretToken |-> "", ServiceName |-> "",
     ServiceVersion |-> "", DeploymentEnvironment |-> "", Creds |-> Nil,
     Sampler |-> Nil]

FullConfig(url, creds, sampler) ==
    [ExporterURL |-> url, SecretToken |-> "s3cr3t", ServiceName |-> "orders",
     ServiceVersion |-> "1.0.0", DeploymentEnvironment |-> "prod", Creds |-> creds,
     Sampler |-> sampler]

\* the configurations tried one call at a time (SpecCall)
AllConfigs == Configs \cup {ZeroConfig(u) : u \in ExporterURLs}

\* the configurations of the call sequences (Spec): two that initialize, and
\* one for each validation failure
LifeConfigs ==
    {FullConfig(UrlHttpsCollector, "tlsCreds", "customSampler"),
     FullConfig(UrlHttpLocal, "tlsCreds", Nil),
     FullConfig(UrlEmpty, Nil, Nil),
     FullConfig(UrlBadPort, Nil, Nil),
     ZeroConfig(UrlNotAUrl)}

\* the configurations of the concurrent calls (SpecConc)
ConcConfigs ==
    {FullConfig(UrlHttpsCollector, "tlsCreds", Nil), ZeroConfig(UrlNotAUrl)}

\* where the SDK fails while InitTracer builds the pipeline, if anywhere:
\* in otlptrace.New (line 69) or in resource.New (line 83)
Faults == {"none", "exporter", "resource"}

Contexts == {"ctxBackground", "ctxDeadline"}

\* --------------------------------------------------------------- errors
NoError == <<>>
ErrMissingEndpoint == <<"endpoint is missing in the otlp tracer configuration">>
ErrMissingServiceName == <<"service name is missing in the otlp tracer configuration">>

\* fmt.Errorf("<msg>: %w", err)
Wrap(msg, cause) == <<msg, cause>>

\* ------------------------------------------- InitTracer, lines 44-99 (local)
\* lines 44-55: the three validation returns, in source order
\* (variant: the service-name check left out)
ValidateConfigNoName(cfg) ==
    IF cfg.ExporterURL = <<>> THEN ErrMissingEndpoint
    ELSE IF Parse(cfg.ExporterURL).err # ""
    THEN Wrap("invalid exporter URL", Parse(cfg.ExporterURL).err)
    ELSE NoError

\* (variant: the service name checked before the endpoint)
ValidateConfigNameFirst(cfg) ==
    IF cfg.ServiceName = "" THEN ErrMissingServiceName
    ELSE IF cfg.ExporterURL = <<>> THEN ErrMissingEndpoint
    ELSE IF Parse(cfg.ExporterURL).err # ""
    THEN Wrap("invalid exporter URL", Parse(cfg.ExporterURL).err)
    ELSE NoError

ValidateConfig(cfg) ==
    IF cfg.ExporterURL = <<>> THEN ErrMissingEndpoint
    ELSE IF cfg.ServiceName = "" THEN ErrMissingServiceName
    ELSE IF Parse(cfg.ExporterURL).err # ""
    THEN Wrap("invalid exporter URL", Parse(cfg.ExporterURL).err)
    ELSE NoError

\* lines 58-60: cfg.Creds after the scheme test
\* (variant: the scheme test left out)
CredsForSchemeKeep(scheme, creds) == creds

CredsForScheme(scheme, creds) == IF scheme = SchemeHttp THEN Nil ELSE creds

\* lines 62-67
SecureOption(creds) ==
    IF creds # Nil THEN [mode |-> "WithTLSCredentials", creds |-> creds]
    ELSE [mode |-> "WithInsecure", creds |-> Nil]

NoOption == [mode |-> "unset", creds |-> Nil]

\* lines 96-99
\* (variant: the supplied sampler ignored)
SelectSamplerAlways(sampler) == "AlwaysSample"

SelectSampler(sampler) == IF sampler # Nil THEN sampler ELSE "AlwaysSample"

\* lines 57-99, once the configuration is validated and its URL parsed into u;
\* fault says which SDK constructor returns an error, if any
BuildPipeline(cfg, u, fault) ==
    LET creds == CredsForScheme(u.Scheme, cfg.Creds)
        cfgAfter == [cfg EXCEPT !.Creds = creds]
        opt == SecureOption(creds)
    IN  IF fault = "exporter"
        THEN [err |-> Wrap("failed to create otlp exporter", "otlptrace.New"),
              cfg |-> cfgAfter, secureOption |-> opt, endpoint |-> <<>>,
              authorization |-> "", resource |-> <<>>, sampler |-> Nil,
              fault |-> fault]
        ELSE IF fault = "resource"
        THEN [err |-> Wrap("failed to create otlp resource", "resource.New"),
              cfg |-> cfgAfter, secureOption |-> opt, endpoint |-> <<>>,
              authorization |-> "", resource |-> <<>>, sampler |-> Nil,
              fault |-> fault]
        ELSE [err |-> NoError, cfg |-> cfgAfter, secureOption |-> opt,
              endpoint |-> u.Host,
              authorization |-> "Bearer " \o cfg.SecretToken,
              resource |-> <<cfg.ServiceName, cfg.ServiceVersion,
                             cfg.DeploymentEnvironment, "go">>,
              sampler |-> SelectSampler(cfg.Sampler), fault |-> fault]

\* lines 44-99: everything InitTracer does before it builds the provider
InitTracerLocal(cfg, fault) ==
    The({IF verr # NoError
         THEN [err |-> verr, cfg |-> cfg, secureOption |-> NoOption, endpoint |-> <<>>,
               authorization |-> "", resource |-> <<>>, sampler |-> Nil,
               fault |-> "none"]
         ELSE The({BuildPipeline(cfg, u, fault) : u \in {Parse(cfg.ExporterURL)}}) :
         verr \in {ValidateConfig(cfg)}})

\* lines 101-105: sdkTrace.NewTracerProvider
NewSDKProvider(r) ==
    [kind |-> "sdk", sampler |-> r.sampler, secureOption |-> r.secureOption,
     endpoint |-> r.endpoint, authorization |-> r.authorization,
     resource |-> r.resource, shutdowns |-> 0, shutdownCtx |-> Nil]

\* line 122: noop.NewTracerProvider
NewNoopProvider ==
    [kind |-> "noop", sampler |-> Nil, secureOption |-> NoOption,
     endpoint |-> <<>>, authorization |-> "", resource |-> <<>>,
     shutdowns |-> 0, shutdownCtx |-> Nil]

\* ------------------------------------------------- the otel package globals
DefaultProvider == 0             \* provider id 0: otel's built-in default
DefaultPropagator == <<>>
CompositePropagator == <<"TraceContext", "Baggage">>   \* lines 109-112

\* otel.SetTracerProvider (lines 106, 123): the slot takes the new provider
\* (variant: only the first provider is kept)
SetTracerProviderOnce(old, tp) == IF old = DefaultProvider THEN tp ELSE old

SetTracerProvider(old, tp) == tp

\* otel.SetTextMapPropagator (line 108)
SetTextMapPropagator(old, p) == p

\* otel.Tracer(name) (lines 116, 126): a tracer of whatever provider the
\* global slot holds when the call is made
OtelTracer(global, name) == [provider |-> global, name |-> name]

\* lines 79-113: the two installs come after every error return
\* (variant: the propagator installed before the error returns)
GlobalsAfterInitEager(err, tp, prop, id) ==
    IF err # NoError THEN [tp |-> tp, prop |-> SetTextMapPropagator(prop, CompositePropagator)]
    ELSE [tp |-> SetTracerProvider(tp, id),
          prop |-> SetTextMapPropagator(prop, CompositePropagator)]

GlobalsAfterInit(err, tp, prop, id) ==
    IF err # NoError THEN [tp |-> tp, prop |-> prop]
    ELSE [tp |-> SetTracerProvider(tp, id),
          prop |-> SetTextMapPropagator(prop, CompositePropagator)]


\* ------------------------------------------------ otelTracer (lines 28-31)
\* lines 131-137 and 139-145: the accessors, nil when the field is nil
NilProvider == -1                                   \* a nil trace.TracerProvider
NilTracer == [provider |-> NilProvider, name |-> ""]  \* a nil trace.Tracer

HandleTracer(h) == IF h.tracer # NilTracer THEN h.tracer ELSE NilTracer
HandleTracerProvider(h) ==
    IF h.tracerProvider # NilProvider THEN h.tracerProvider ELSE NilProvider

\* line 148: the type assertion t.tracerProvider.(*sdkTrace.TracerProvider)
\* (variant: every provider taken for an SDK provider)
IsSDKProviderAny(p) == TRUE

IsSDKProvider(p) == p.kind = "sdk"

\* lines 149-154: the value Shutdown returns, given what tp.Shutdown returned
\* ("" for nil)
\* (variant: the provider's error dropped)
ShutdownErrorSwallow(underlying) == NoError

ShutdownError(underlying) ==
    IF underlying # "" THEN Wrap("failed to shutdown tracer provider", underlying)
    ELSE NoError

\* what the SDK's TracerProvider.Shutdown may return
ShutdownOutcomes == {"", "exporter shutdown failed", "context deadline exceeded"}

\* ------------------------------------------------------------------- state
VARIABLES
    globalTracerProvider,   \* otel's global tracer provider: a provider id
    globalPropagator,       \* otel's global text-map propagator
    providers,              \* the tracer providers created so far, by id
    handles,                \* the *otelTracer values returned so far
    ret,                    \* the most recent completed call, as its caller saw it
    ninit,                  \* initialization calls started
    nshut,                  \* Shutdown calls made
    pc,                     \* per goroutine: where it is inside an initialization
    loc                     \* per goroutine: its local variables there

vars == <<globalTracerProvider, globalPropagator, providers, handles, ret,
          ninit, nshut, pc, loc>>

Threads == 1..NumThreads

NoConfig ==
    [ExporterURL |-> <<>>, SecretToken |-> "", ServiceName |-> "",
     ServiceVersion |-> "", DeploymentEnvironment |-> "", Creds |-> Nil,
     Sampler |-> Nil]

NoLocals == [op |-> "none", tp |-> 0, name |-> "", cfgBefore |-> NoConfig,
             cfgAfter |-> NoConfig, secureOption |-> NoOption,
             tpBefore |-> 0, propBefore |-> <<>>]

\* number of SDK provider Shutdown invocations made so far
RECURSIVE SumShutdowns(_)
SumShutdowns(ps) ==
    IF ps = <<>> THEN 0 ELSE Head(ps).shutdowns + SumShutdowns(Tail(ps))

NoReturn ==
    [op |-> "none", err |-> NoError, handle |-> 0, cfgBefore |-> NoConfig,
     cfgAfter |-> NoConfig, secureOption |-> NoOption, tpBefore |-> DefaultProvider,
     propBefore |-> DefaultPropagator, ctx |-> Nil, underlying |-> "",
     shutdownsBefore |-> 0, handleCalls |-> 0, fault |-> "none",
     prevOp |-> "none", prevErr |-> NoError]

Init ==
    /\ globalTracerProvider = DefaultProvider
    /\ globalPropagator = DefaultPropagator
    /\ providers = <<>>
    /\ handles = <<>>
    /\ ret = NoReturn
    /\ ninit = 0
    /\ nshut = 0
    /\ pc = [t \in Threads |-> "idle"]
    /\ loc = [t \in Threads |-> NoLocals]

\* ------------------------------------------------ what a call returned
InitTracerReturn(cfg, r, h, tpBefore, propBefore) ==
    [NoReturn EXCEPT
        !.op = "InitTracer", !.err = r.err, !.handle = h, !.fault = r.fault,
        !.prevOp = ret.op, !.prevErr = ret.err,
        !.cfgBefore = cfg, !.cfgAfter = r.cfg, !.secureOption = r.secureOption,
        !.tpBefore = tpBefore, !.propBefore = propBefore,
        !.shutdownsBefore = SumShutdowns(providers)]

InitNoopReturn(h, tpBefore, propBefore) ==
    [NoReturn EXCEPT
        !.op = "InitNoopTracer", !.err = NoError, !.handle = h,
        !.prevOp = ret.op, !.prevErr = ret.err,
        !.tpBefore = tpBefore, !.propBefore = propBefore,
        !.shutdownsBefore = SumShutdowns(providers)]

\* lines 115-118 and 125-128: the handle, its tracer taken from otel.Tracer
NewHandle(global, name, tp) ==
    [tracer |-> OtelTracer(global, name), tracerProvider |-> tp, shutdownCalls |-> 0]

\* --------------------------------------------- sequential calls (whole handlers)
\* InitTracer, lines 43-119
InitTracer(cfg, fault) ==
    /\ ninit < MaxInits
    /\ ninit' = ninit + 1
    /\ \E r \in {InitTracerLocal(cfg, fault)} :
       LET id == Len(providers) + 1
           g == GlobalsAfterInit(r.err, globalTracerProvider, globalPropagator, id)
           ok == r.err = NoError
       IN  /\ globalTracerProvider' = g.tp
           /\ globalPropagator' = g.prop
           /\ providers' = IF ok THEN Append(providers, NewSDKProvider(r)) ELSE providers
           /\ handles' = IF ok
                         THEN Append(handles,
                                     NewHandle(g.tp, cfg.ServiceName \o "-tracer", id))
                         ELSE handles
           /\ ret' = InitTracerReturn(cfg, r, IF ok THEN Len(handles) + 1 ELSE 0,
                                      globalTracerProvider, globalPropagator)
    /\ UNCHANGED <<nshut, pc, loc>>

\* InitNoopTracer, lines 121-129
InitNoopTracer ==
    /\ ninit < MaxInits
    /\ ninit' = ninit + 1
    /\ LET id == Len(providers) + 1
           tp == SetTracerProvider(globalTracerProvider, id)
       IN  /\ globalTracerProvider' = tp
           /\ providers' = Append(providers, NewNoopProvider)
           /\ handles' = Append(handles, NewHandle(tp, "noop-tracer", id))
           /\ ret' = InitNoopReturn(Len(handles) + 1, globalTracerProvider,
                                    globalPropagator)
    /\ UNCHANGED <<globalPropagator, nshut, pc, loc>>

\* (*otelTracer).Shutdown, lines 147-155, on handle h with context ctx;
\* underlying: what tp.Shutdown(ctx) returns if it is called
Shutdown(h, ctx, underlying) ==
    /\ nshut < MaxShutdowns
    /\ nshut' = nshut + 1
    /\ h \in 1..Len(handles)
    /\ LET p == HandleTracerProvider(handles[h])
           sdk == IsSDKProvider(providers[p])
       IN  /\ providers' = IF sdk
                           THEN [providers EXCEPT ![p].shutdowns = @ + 1,
                                                  ![p].shutdownCtx = ctx]
                           ELSE providers
           /\ ret' = [NoReturn EXCEPT
                        !.op = "Shutdown", !.handle = h, !.ctx = ctx,
                        !.prevOp = ret.op, !.prevErr = ret.err,
                        !.err = IF sdk THEN ShutdownError(underlying) ELSE NoError,
                        !.underlying = IF sdk THEN underlying ELSE "",
                        !.tpBefore = globalTracerProvider,
                        !.propBefore = globalPropagator,
                        !.shutdownsBefore = SumShutdowns(providers),
                        !.handleCalls = handles[h].shutdownCalls + 1]
           /\ handles' = [handles EXCEPT ![h].shutdownCalls = @ + 1]
    /\ UNCHANGED <<globalTracerProvider, globalPropagator, ninit, pc, loc>>

\* only a context with a deadline can make tp.Shutdown return its expiry
OutcomesFor(ctx) ==
    IF ctx = "ctxDeadline" THEN ShutdownOutcomes
    ELSE ShutdownOutcomes \ {"context deadline exceeded"}

\* calls made one after another
Next ==
    \/ \E cfg \in LifeConfigs, fault \in Faults : InitTracer(cfg, fault)
    \/ InitNoopTracer
    \/ \E h \in 1..Len(handles), ctx \in Contexts :
           \E u \in OutcomesFor(ctx) : Shutdown(h, ctx, u)

Spec == Init /\ [][Next]_vars

\* one InitTracer call at a time, over every configuration
NextCall ==
    /\ ninit < MaxCalls
    /\ \E cfg \in AllConfigs, fault \in Faults : InitTracer(cfg, fault)

SpecCall == Init /\ [][NextCall]_vars

\* ------------------------------------- concurrent initialization (SpecConc)
\* A goroutine's call is split where it reads or writes the otel globals:
\* lines 44-105 are local, then line 106, line 108, and lines 115-118.
BeginInitTracer(t, cfg, fault) ==
    /\ pc[t] = "idle"
    /\ ninit < MaxInits
    /\ ninit' = ninit + 1
    /\ \E r \in {InitTracerLocal(cfg, fault)} :
       LET id == Len(providers) + 1
       IN  IF r.err # NoError
           THEN /\ ret' = InitTracerReturn(cfg, r, 0, globalTracerProvider,
                                           globalPropagator)
                /\ UNCHANGED <<providers, pc, loc>>
           ELSE /\ providers' = Append(providers, NewSDKProvider(r))
                /\ pc' = [pc EXCEPT ![t] = "SetTracerProvider"]
                /\ loc' = [loc EXCEPT ![t] =
                              [NoLocals EXCEPT
                                  !.op = "InitTracer", !.tp = id,
                                  !.name = cfg.ServiceName \o "-tracer",
                                  !.cfgBefore = cfg, !.cfgAfter = r.cfg,
                                  !.secureOption = r.secureOption,
                                  !.tpBefore = globalTracerProvider,
                                  !.propBefore = globalPropagator]]
                /\ UNCHANGED ret
    /\ UNCHANGED <<globalTracerProvider, globalPropagator, handles, nshut>>

\* line 122
BeginInitNoop(t) ==
    /\ pc[t] = "idle"
    /\ ninit < MaxInits
    /\ ninit' = ninit + 1
    /\ providers' = Append(providers, NewNoopProvider)
    /\ pc' = [pc EXCEPT ![t] = "SetTracerProvider"]
    /\ loc' = [loc EXCEPT ![t] =
                  [NoLocals EXCEPT
                      !.op = "InitNoopTracer", !.tp = Len(providers) + 1,
                      !.name = "noop-tracer",
                      !.tpBefore = globalTracerProvider,
                      !.propBefore = globalPropagator]]
    /\ UNCHANGED <<globalTracerProvider, globalPropagator, handles, ret, nshut>>

\* lines 106 and 123
StepSetTracerProvider(t) ==
    /\ pc[t] = "SetTracerProvider"
    /\ globalTracerProvider' = SetTracerProvider(globalTracerProvider, loc[t].tp)
    /\ pc' = [pc EXCEPT ![t] = IF loc[t].op = "InitTracer"
                               THEN "SetTextMapPropagator" ELSE "Tracer"]
    /\ UNCHANGED <<globalPropagator, providers, handles, ret, ninit, nshut, loc>>

\* lines 108-113
StepSetTextMapPropagator(t) ==
    /\ pc[t] = "SetTextMapPropagator"
    /\ globalPropagator' = SetTextMapPropagator(globalPropagator, CompositePropagator)
    /\ pc' = [pc EXCEPT ![t] = "Tracer"]
    /\ UNCHANGED <<globalTracerProvider, providers, handles, ret, ninit, nshut, loc>>

\* lines 115-118 and 125-128
StepReturn(t) ==
    /\ pc[t] = "Tracer"
    /\ handles' = Append(handles,
                         NewHandle(globalTracerProvider, loc[t].name, loc[t].tp))
    /\ ret' = [NoReturn EXCEPT
                  !.op = loc[t].op, !.handle = Len(handles) + 1,
                  !.prevOp = ret.op, !.prevErr = ret.err,
                  !.cfgBefore = loc[t].cfgBefore, !.cfgAfter = loc[t].cfgAfter,
                  !.secureOption = loc[t].secureOption,
                  !.tpBefore = loc[t].tpBefore, !.propBefore = loc[t].propBefore]
    /\ pc' = [pc EXCEPT ![t] = "idle"]
    /\ loc' = [loc EXCEPT ![t] = NoLocals]
    /\ UNCHANGED <<globalTracerProvider, globalPropagator, providers, ninit, nshut>>

NextConc ==
    \E t \in Threads :
        \/ \E cfg \in ConcConfigs, fault \in Faults : BeginInitTracer(t, cfg, fault)
        \/ BeginInitNoop(t)
        \/ StepSetTracerProvider(t)
        \/ StepSetTextMapPropagator(t)
        \/ StepReturn(t)

SpecConc == Init /\ [][NextConc]_vars


\* ------------------------------------------------------------ properties
\* the provider the most recent call's handle holds (for a call with a handle)
RetProvider == providers[HandleTracerProvider(handles[ret.handle])]

InitTracerFailed == ret.op = "InitTracer" /\ ret.err # NoError
InitTracerSucceeded == ret.op = "InitTracer" /\ ret.err = NoError

\* a configuration with both mandatory fields and an endpoint that parses
ValidConfig(cfg) ==
    /\ cfg.ExporterURL # <<>>
    /\ cfg.ServiceName # ""
    /\ Parse(cfg.ExporterURL).err = ""

\* C1: when InitTracer returns an error (of any of its five kinds) the global
\* tracer provider and the global propagator are what they were before the
\* call and no handle is returned; and a call with a valid configuration, with
\* no SDK constructor failing, succeeds whatever came before it and installs
\* the provider built from that configuration alone.
C1_FailedInitLeavesGlobals ==
    /\ InitTracerFailed =>
          /\ globalTracerProvider = ret.tpBefore
          /\ globalPropagator = ret.propBefore
          /\ ret.handle = 0
          /\ ret.err[1] \in {ErrMissingEndpoint[1], ErrMissingServiceName[1],
                             "invalid exporter URL", "failed to create otlp exporter",
                             "failed to create otlp resource"}
    /\ (ret.op = "InitTracer" /\ ValidConfig(ret.cfgBefore) /\ ret.fault = "none") =>
          /\ ret.err = NoError
          /\ globalTracerProvider = Len(providers)
          /\ globalTracerProvider = HandleTracerProvider(handles[ret.handle])
          /\ globalPropagator = CompositePropagator
          /\ RetProvider.kind = "sdk"
          /\ RetProvider.endpoint = Parse(ret.cfgBefore.ExporterURL).Host
          /\ RetProvider.resource[1] = ret.cfgBefore.ServiceName
          /\ HandleTracer(handles[ret.handle]).name = ret.cfgBefore.ServiceName \o "-tracer"

\* C1 witness: a failed InitTracer after a pipeline and the propagator were installed
C1_Witness ==
    /\ InitTracerFailed
    /\ ret.tpBefore # DefaultProvider
    /\ ret.propBefore = CompositePropagator
    /\ ret.fault = "exporter"

\* C2: a configuration with an empty ExporterURL or an empty ServiceName gets
\* no handle and an error naming the reason: the missing-endpoint error when
\* the URL is empty (also when both are empty), otherwise the
\* missing-service-name error; the two differ from each other and from the
\* malformed-URL error.
C2_MissingFieldsReported ==
    (ret.op = "InitTracer"
       /\ (ret.cfgBefore.ExporterURL = <<>> \/ ret.cfgBefore.ServiceName = "")) =>
          /\ ret.handle = 0
          /\ ret.err # NoError
          /\ ret.err = IF ret.cfgBefore.ExporterURL = <<>>
                       THEN <<"endpoint is missing in the otlp tracer configuration">>
                       ELSE <<"service name is missing in the otlp tracer configuration">>
          /\ ret.err[1] # "invalid exporter URL"
          /\ ErrMissingEndpoint # ErrMissingServiceName

\* C2 witness: both fields empty, the missing endpoint reported
C2_Witness ==
    /\ ret.op = "InitTracer"
    /\ ret.cfgBefore.ExporterURL = <<>>
    /\ ret.cfgBefore.ServiceName = ""
    /\ ret.err = ErrMissingEndpoint

\* C3 as stated: InitTracer(Config{ExporterURL: "not a url"}) fails with the
\* malformed-URL error and leaves the global tracer state as it was.
C3_Original ==
    (ret.op = "InitTracer" /\ ret.cfgBefore = ZeroConfig(UrlNotAUrl)) =>
          /\ ret.err # NoError
          /\ ret.err[1] = "invalid exporter URL"
          /\ globalTracerProvider = ret.tpBefore
          /\ globalPropagator = ret.propBefore

\* C3 amended: InitTracer(Config{ExporterURL: "not a url"}) fails with the
\* missing-service-name error (ServiceName is checked before the URL is
\* parsed), returns no handle, and leaves the global tracer state as it was.
C3_NotAUrlMissingName ==
    (ret.op = "InitTracer" /\ ret.cfgBefore = ZeroConfig(UrlNotAUrl)) =>
          /\ ret.err = <<"service name is missing in the otlp tracer configuration">>
          /\ ret.handle = 0
          /\ globalTracerProvider = ret.tpBefore
          /\ globalPropagator = ret.propBefore

\* C3 witness: that call made after a pipeline was installed
C3_Witness ==
    /\ ret.op = "InitTracer"
    /\ ret.cfgBefore = ZeroConfig(UrlNotAUrl)
    /\ ret.tpBefore # DefaultProvider
    /\ providers[ret.tpBefore].kind = "sdk"

\* C4: for every configuration InitTracer accepts, the transport is built
\* with the supplied credentials exactly when credentials were supplied and
\* the (lower-cased) scheme is not http, and with the insecure option in every
\* other case; the installed provider carries that choice.
C4_TransportSecurity ==
    /\ (ret.op = "InitTracer" /\ ValidConfig(ret.cfgBefore)) =>
          LET tls == ret.cfgBefore.Creds # Nil
                     /\ Parse(ret.cfgBefore.ExporterURL).Scheme # <<"h", "t", "t", "p">>
          IN  ret.secureOption =
                  IF tls
                  THEN [mode |-> "WithTLSCredentials", creds |-> ret.cfgBefore.Creds]
                  ELSE [mode |-> "WithInsecure", creds |-> Nil]
    /\ InitTracerSucceeded =>
          /\ ValidConfig(ret.cfgBefore)
          /\ RetProvider.secureOption = ret.secureOption

\* C4 witness: an http endpoint given in upper case, with credentials, accepted
\* and built with the insecure option
C4_Witness ==
    /\ InitTracerSucceeded
    /\ ret.cfgBefore.ExporterURL = UrlUpperHttp
    /\ ret.cfgBefore.Creds = "tlsCreds"
    /\ RetProvider.secureOption.mode = "WithInsecure"

\* C5: with calls made one after another, the global tracer provider is the
\* provider created by the most recent successful initialization (the default
\* one before any), and the handle that call returned holds that provider.
C5_LastWriterWins ==
    /\ handles = <<>> => globalTracerProvider = DefaultProvider
    /\ handles # <<>> =>
          /\ globalTracerProvider = HandleTracerProvider(handles[Len(handles)])
          /\ globalTracerProvider = Len(providers)
    /\ (ret.op \in {"InitTracer", "InitNoopTracer"} /\ ret.err = NoError) =>
          /\ ret.handle = Len(handles)
          /\ HandleTracerProvider(handles[ret.handle]) = globalTracerProvider
    /\ (ret.op = "Shutdown" \/ InitTracerFailed) => globalTracerProvider = ret.tpBefore

\* C5 witness: a second initialization replaced the first one's provider, and
\* a later call left it in place
C5_Witness ==
    /\ Len(handles) = 2
    /\ providers[1].kind = "sdk"
    /\ providers[2].kind = "noop"
    /\ globalTracerProvider = 2
    /\ ret.op = "Shutdown"
    /\ ret.handle = 1

\* C6: InitNoopTracer returns a handle and no error; Shutdown on such a
\* handle returns no error and calls no provider's Shutdown, however often it
\* is called and whichever provider is installed globally.
C6_NoopShutdown ==
    /\ ret.op = "InitNoopTracer" => (ret.err = NoError /\ ret.handle # 0)
    /\ (ret.op = "Shutdown" /\ RetProvider.kind = "noop") =>
          /\ ret.err = NoError
          /\ SumShutdowns(providers) = ret.shutdownsBefore
    /\ \A p \in 1..Len(providers) :
          providers[p].kind = "noop" =>
             (providers[p].shutdowns = 0 /\ providers[p].shutdownCtx = Nil)

\* C6 witness: the second Shutdown of a no-op handle while an SDK provider is
\* the global one
C6_Witness ==
    /\ ret.op = "Shutdown"
    /\ RetProvider.kind = "noop"
    /\ ret.handleCalls = 2
    /\ providers[globalTracerProvider].kind = "sdk"

\* C7 as stated: InitTracer leaves every field of the caller's Config as it was.
C7_ConfigUnchanged ==
    ret.op = "InitTracer" => ret.cfgAfter = ret.cfgBefore

\* C8: for every configuration InitTracer accepts, the installed provider's
\* sampler is the supplied one when Config.Sampler is set and AlwaysSample
\* when it is not.
C8_SamplerSelected ==
    InitTracerSucceeded =>
        /\ ret.cfgBefore.Sampler # Nil => RetProvider.sampler = ret.cfgBefore.Sampler
        /\ ret.cfgBefore.Sampler = Nil => RetProvider.sampler = "AlwaysSample"
        /\ providers[globalTracerProvider] = RetProvider

\* C8 witness: a supplied sampler installed
C8_Witness ==
    /\ InitTracerSucceeded
    /\ ret.cfgBefore.Sampler = "customSampler"
    /\ providers[globalTracerProvider].sampler = "customSampler"

\* C9: Shutdown on a handle of a successful InitTracer calls the provider's
\* Shutdown once per call, with the caller's context, and returns an error
\* exactly when that call did: the provider's error wrapped.
C9_ShutdownReported ==
    /\ (ret.op = "Shutdown" /\ RetProvider.kind = "sdk") =>
          /\ SumShutdowns(providers) = ret.shutdownsBefore + 1
          /\ RetProvider.shutdownCtx = ret.ctx
          /\ (ret.err # NoError) <=> (ret.underlying # "")
          /\ ret.err # NoError =>
                ret.err = <<"failed to shutdown tracer provider", ret.underlying>>
    /\ \A h \in 1..Len(handles) :
          providers[handles[h].tracerProvider].kind = "sdk" =>
             providers[handles[h].tracerProvider].shutdowns = handles[h].shutdownCalls

\* C9 witness: the context's deadline expired inside the provider's Shutdown
C9_Witness ==
    /\ ret.op = "Shutdown"
    /\ RetProvider.kind = "sdk"
    /\ ret.ctx = "ctxDeadline"
    /\ ret.err = <<"failed to shutdown tracer provider", "context deadline exceeded">>

\* C10 as stated: in every interleaving of concurrent initializations each
\* returned handle's tracer comes from the provider the handle holds, and once
\* every call has returned the global provider is the provider of one of them.
C10_TracerFromOwnProvider ==
    /\ \A h \in 1..Len(handles) :
          HandleTracer(handles[h]).provider = HandleTracerProvider(handles[h])
    /\ ((\A t \in Threads : pc[t] = "idle") /\ handles # <<>>) =>
          \E h \in 1..Len(handles) :
              globalTracerProvider = HandleTracerProvider(handles[h])

====
